---------------------------- MODULE Spec2Model ----------------------------
(***************************************************************************)
(* notiflow: a toast system.  The notification store (provider) keeps the  *)
(* ordered list of live notifications, the theme mode and the timers; the  *)
(* NotificationManager component buckets the list by anchor, caps every    *)
(* bucket, assigns stacking indices and renders one Notification card per  *)
(* retained entry; a card computes its colors and handles the pointer      *)
(* gestures.                                                               *)
(*                                                                         *)
(* The manager and the card are translated from                            *)
(* src/src/components/NotificationManager/NotificationManager.tsx.  The    *)
(* store (NotificationsProvider) and the two palettes are not part of the  *)
(* available sources: they are modelled from the specification, sections   *)
(* 3, 4.1 and 5.                                                           *)
(*                                                                         *)
(* React commits a render after every event handler and every timer        *)
(* callback, so every action below is one such event followed by the       *)
(* render and the cleanup effect of the manager (Commit).  Time is kept    *)
(* relative: every timer holds the milliseconds left until it fires, and   *)
(* time never passes a timer that is due.                                  *)
(***************************************************************************)
EXTENDS Integers, Sequences, FiniteSets, TLC

VARIABLES
    notifications,   \* store: the ordered live list
    mode,            \* store: "light" | "dark"
    nextId,          \* store: the next id to hand out (ids are 1, 2, ...)
    autoTimers,      \* store: id -> ms left of the auto-dismiss timer
    removeTimers,    \* store: id -> ms left of the exit-grace removal timer
    previousIndexes, \* manager: the ref, id -> last stacking index
    rendered,        \* manager: the cards of the last render, in render order
    cards,           \* card: id -> the refs of the card component
    elapsed,         \* history: id -> ms since notify (live entries with a duration >= 0)
    sinceExit,       \* history: id -> ms since the entry was first marked exiting
    lastLive,        \* history: id -> stacking index in the last render that showed it non-exiting
    ccIn,            \* computeColors: the arguments under test
    ccOut            \* computeColors: the result for ccIn

vars == <<notifications, mode, nextId, autoTimers, removeTimers,
          previousIndexes, rendered, cards, elapsed, sinceExit, lastLive,
          ccIn, ccOut>>

---------------------------------------------------------------------------
(* Bounds of the model *)

\* ids handed out in the lifecycle specification
MaxNotifs == 2
\* ids handed out in the bucket-cap specification
CapNotifs == 9
\* entries the bucket-cap specification lets exit
CapExits == 2
\* ids handed out in the theme specification
ThemeNotifs == 2
\* ids handed out in the anchor specification
AlignNotifs == 2
\* ids handed out in the gesture specification
ClickNotifs == 2
DragNotifs == 2

---------------------------------------------------------------------------
(* Program constants *)

\* bucket.slice(0, 7)
MAX_VISIBLE == 7
\* exit-animation grace period of the store, in ms
EXIT_GRACE == 250
DRAG_CLOSE_DISTANCE == 100
DRAG_RELEASE_PUSH == 120
\* Math.hypot(dx, dy) > 4
CLICK_SUPPRESS_DISTANCE == 4
\* Math.abs(x) > 6
PUSH_MIN_OFFSET == 6

ORDER == << "top-left", "top-middle", "top-right",
            "bottom-left", "bottom-middle", "bottom-right" >>

Types == {"success", "error", "info", "alert", "none"}
ColoredModes == {"full", "border", "none"}
Modes == {"light", "dark"}
Undefined == "undefined"

\* The theme of the tests' "notify-custom" button.
CUSTOM_THEME ==
    [backgroundColor |-> "#101010", borderColor |-> "#ff00ff", fontColor |-> "#00ff00"]

\* A palette maps every type to a theme record; the two palettes belong to
\* the store.  Colors are symbolic: one name per mode, type and field.
PaletteOf(m) ==
    [t \in Types |->
        [backgroundColor |-> m \o "." \o t \o ".bg",
         borderColor     |-> m \o "." \o t \o ".border",
         fontColor       |-> m \o "." \o t \o ".font"]]

lightTheme == PaletteOf("light")
darkTheme == PaletteOf("dark")

---------------------------------------------------------------------------
(* Helpers *)

Range(s) == {s[i] : i \in DOMAIN s}

Min(S) == CHOOSE x \in S : \A y \in S : x <= y

Abs(x) == IF x < 0 THEN -x ELSE x

Sign(x) == IF x > 0 THEN 1 ELSE IF x < 0 THEN -1 ELSE 0

\* Array.prototype.slice(0, k)
Slice(s, k) == SubSeq(s, 1, IF Len(s) < k THEN Len(s) ELSE k)

Ids(list) == {list[i].id : i \in DOMAIN list}

Entry(list, id) == list[CHOOSE i \in DOMAIN list : list[i].id = id]

\* f with the key k dropped
Drop(f, k) == [x \in DOMAIN f \ {k} |-> f[x]]

\* f with the key k set to v
Put(f, k, v) == [x \in DOMAIN f \cup {k} |-> IF x = k THEN v ELSE f[x]]

---------------------------------------------------------------------------
(* Notification card: computeColors *)

\* a card that takes the background of the "border" mode from the theme
computeColors_BorderBg(colored, type, userTheme, light, dark, m) ==
    LET palette == IF m = "light" THEN light ELSE dark
        base == IF userTheme # <<>> THEN userTheme[1] ELSE palette[type]
        none == palette["none"]
    IN CASE colored = "none" ->
                [bg |-> none.backgroundColor, border |-> none.borderColor,
                 color |-> none.fontColor]
         [] OTHER ->
                [bg |-> base.backgroundColor, border |-> base.borderColor,
                 color |-> base.fontColor]

\* a card that always reads the light palette
computeColors_LightOnly(colored, type, userTheme, light, dark, m) ==
    LET base == IF userTheme # <<>> THEN userTheme[1] ELSE light[type]
        none == light["none"]
    IN CASE colored = "border" ->
                [bg |-> none.backgroundColor, border |-> base.borderColor,
                 color |-> base.fontColor]
         [] colored = "none" ->
                [bg |-> none.backgroundColor, border |-> none.borderColor,
                 color |-> none.fontColor]
         [] OTHER ->
                [bg |-> base.backgroundColor, border |-> base.borderColor,
                 color |-> base.fontColor]

\* An optional theme is <<>> (undefined) or <<theme>>.
computeColors(colored, type, userTheme, light, dark, m) ==
    LET palette == IF m = "light" THEN light ELSE dark
        base == IF userTheme # <<>> THEN userTheme[1] ELSE palette[type]
        none == palette["none"]
    IN CASE colored = "border" ->
                [bg |-> none.backgroundColor, border |-> base.borderColor,
                 color |-> base.fontColor]
         [] colored = "none" ->
                [bg |-> none.backgroundColor, border |-> none.borderColor,
                 color |-> none.fontColor]
         [] OTHER ->
                [bg |-> base.backgroundColor, border |-> base.borderColor,
                 color |-> base.fontColor]

\* colored = "full" in the destructuring of the props, and n.colored ?? "full"
ColoredOrFull(c) == IF c = Undefined THEN "full" ELSE c

\* veticalAlign / horizontalAlign of the card: the defaults unless align is given
VerticalAlign(align) == IF align # <<>> THEN align[1] ELSE "top"

HorizontalAlign(align) == IF align # <<>> THEN align[2] ELSE "middle"

\* a manager that does not hand the entry's isExiting on to the card
Card_NoExitFlag(n, idx, alignKey, m) ==
    LET c == computeColors(ColoredOrFull(ColoredOrFull(n.colored)), n.type,
                           n.theme, lightTheme, darkTheme, m)
    IN [id |-> n.id, bucket |-> alignKey, index |-> idx,
        isExiting |-> FALSE,
        veticalAlign |-> VerticalAlign(n.align),
        horizontalAlign |-> HorizontalAlign(n.align),
        bg |-> c.bg, border |-> c.border, color |-> c.color,
        hasClose |-> n.canClose, isClickable |-> n.hasOnClick]

\* What the card hands to NotificationWrapper, for the entry n rendered with
\* stacking index idx from the bucket alignKey under mode m.
Card(n, idx, alignKey, m) ==
    LET c == computeColors(ColoredOrFull(ColoredOrFull(n.colored)), n.type,
                           n.theme, lightTheme, darkTheme, m)
    IN [id |-> n.id, bucket |-> alignKey, index |-> idx,
        isExiting |-> n.isExiting,
        veticalAlign |-> VerticalAlign(n.align),
        horizontalAlign |-> HorizontalAlign(n.align),
        bg |-> c.bg, border |-> c.border, color |-> c.color,
        hasClose |-> n.canClose, isClickable |-> n.hasOnClick]

---------------------------------------------------------------------------
(* NotificationManager *)

\* a manager that reads n.align without the default anchor
KeyOf_NoDefault(n) ==
    LET v == IF Len(n.align) >= 1 THEN n.align[1] ELSE "undefined"
        h == IF Len(n.align) >= 2 THEN n.align[2] ELSE "undefined"
    IN v \o "-" \o h

\* const [v = "top", h = "middle"] = n.align ?? ["top", "middle"]; `${v}-${h}`
KeyOf(n) ==
    LET v == IF Len(n.align) >= 1 THEN n.align[1] ELSE "top"
        h == IF Len(n.align) >= 2 THEN n.align[2] ELSE "middle"
    IN v \o "-" \o h

\* the loop of the groups memo: (acc[key] ||= []).push(n)
RECURSIVE GroupsFrom(_, _)
GroupsFrom(list, acc) ==
    IF list = <<>> THEN acc
    ELSE LET n == Head(list)
             key == KeyOf(n)
             old == IF key \in DOMAIN acc THEN acc[key] ELSE <<>>
         IN GroupsFrom(Tail(list), Put(acc, key, Append(old, n)))

groups(list) == GroupsFrom(list, <<>>)

\* a manager that recomputes the index of an exiting entry
CurrentIndex_Recomputed(n, prev, activeIndex) == activeIndex

\* n.isExiting ? previousIndexes.current[n.id] ?? activeIndex : activeIndex
CurrentIndex(n, prev, activeIndex) ==
    IF n.isExiting
    THEN (IF n.id \in DOMAIN prev THEN prev[n.id] ELSE activeIndex)
    ELSE activeIndex

\* a manager that advances the index past exiting entries too
NextActiveIndex_CountsExiting(n, activeIndex) == activeIndex + 1

\* if (!n.isExiting) activeIndex += 1
NextActiveIndex(n, activeIndex) ==
    IF ~n.isExiting THEN activeIndex + 1 ELSE activeIndex

\* a manager that renders the whole bucket
Visible_NoCap(bucket) == bucket

\* a manager that caps the non-exiting entries only
Visible_LiveCap(bucket) ==
    LET live == SelectSeq(bucket, LAMBDA n : ~n.isExiting)
        last == IF Len(live) <= MAX_VISIBLE THEN 0 ELSE live[MAX_VISIBLE + 1].id
    IN SelectSeq(bucket, LAMBDA n : last = 0 \/ n.id < last)

\* the entries of a bucket that are rendered
Visible(bucket) == Slice(bucket, MAX_VISIBLE)

\* bucket.slice(0, 7).map(...), continued from the render state st: the cards
\* rendered so far and the ref as the map leaves it
RECURSIVE MapBucket(_, _, _, _, _)
MapBucket(bucket, activeIndex, st, alignKey, m) ==
    IF bucket = <<>> THEN st
    ELSE LET n == Head(bucket)
             currentIndex == CurrentIndex(n, st.prev, activeIndex)
         IN MapBucket(Tail(bucket), NextActiveIndex(n, activeIndex),
                      [cards |-> Append(st.cards, Card(n, currentIndex, alignKey, m)),
                       prev |-> Put(st.prev, n.id, currentIndex)],
                      alignKey, m)

\* ORDER.map(...) from the k-th key on; a key without a bucket renders nothing
RECURSIVE MapOrder(_, _, _, _)
MapOrder(k, g, st, m) ==
    IF k > Len(ORDER) THEN st
    ELSE IF ORDER[k] \notin DOMAIN g THEN MapOrder(k + 1, g, st, m)
    ELSE MapOrder(k + 1, g, MapBucket(Visible(g[ORDER[k]]), 0, st, ORDER[k], m), m)

\* One render of the manager: the cards in render order and the ref after it.
Render(list, prev, m) == MapOrder(1, groups(list), [cards |-> <<>>, prev |-> prev], m)

\* a manager whose cleanup effect deletes nothing
Cleanup_Never(prev, list) == prev

\* The cleanup effect: delete previousIndexes.current[id] for every id not alive.
Cleanup(prev, list) == [id \in DOMAIN prev \cap Ids(list) |-> prev[id]]

---------------------------------------------------------------------------
(* Notification card: the pointer gesture *)

\* The history of the pointer events of a card since its last pointer-down
\* (not a ref of the component): moved is whether a move of the gesture went
\* more than 4 px from the pointer-down point, fires tells of the clicks since
\* the pointer-down or the last such move whether the click handler of the
\* props ran (of the first and of the last, once there are more than 2), exits
\* counts the calls of exitNotification the pointer handlers made, beyond
\* is whether a move of the gesture went more than 100 px from the
\* pointer-down point, and cancelled is whether a pointer-cancel arrived.
InitTrack ==
    [moved |-> FALSE, fires |-> <<>>, exits |-> 0, beyond |-> FALSE, cancelled |-> FALSE]

\* A point or an offset is <<x, y>>; a null drag start is <<>>.
InitCard ==
    [dragOffset |-> <<0, 0>>, dragStart |-> <<>>,
     clickSuppressed |-> FALSE, isDraggingOut |-> FALSE, track |-> InitTrack]

\* Math.hypot(dx, dy) > d, for integer dx, dy and d
HypotExceeds(dx, dy, d) == dx * dx + dy * dy > d * d

\* a push without the 6 px test: x + Math.sign(x) * DRAG_RELEASE_PUSH
Pushed_AnyOffset(x) == x + Sign(x) * DRAG_RELEASE_PUSH

\* x + (Math.abs(x) > 6 ? Math.sign(x) * DRAG_RELEASE_PUSH : 0)
Pushed(x) == x + (IF Abs(x) > PUSH_MIN_OFFSET THEN Sign(x) * DRAG_RELEASE_PUSH ELSE 0)

\* a card whose finalizeDrag leaves the offset where it is when it does not close
finalizeDrag_NoSnapBack(c, shouldClose) ==
    IF shouldClose
    THEN [card |-> [c EXCEPT !.dragOffset =
                        <<Pushed(c.dragOffset[1]), Pushed(c.dragOffset[2])>>],
          exit |-> TRUE]
    ELSE [card |-> c, exit |-> FALSE]

\* a card whose finalizeDrag pushes the offset but does not call exitNotification
finalizeDrag_NoExit(c, shouldClose) ==
    IF shouldClose
    THEN [card |-> [c EXCEPT !.dragOffset =
                        <<Pushed(c.dragOffset[1]), Pushed(c.dragOffset[2])>>],
          exit |-> FALSE]
    ELSE [card |-> [c EXCEPT !.dragOffset = <<0, 0>>], exit |-> FALSE]

\* finalizeDrag: the refs it leaves, and whether it called exitNotification(id)
finalizeDrag(c, shouldClose) ==
    IF shouldClose
    THEN [card |-> [c EXCEPT !.dragOffset =
                        <<Pushed(c.dragOffset[1]), Pushed(c.dragOffset[2])>>],
          exit |-> TRUE]
    ELSE [card |-> [c EXCEPT !.dragOffset = <<0, 0>>], exit |-> FALSE]

handlePointerDown(c, pt) ==
    [card |-> [c EXCEPT !.dragStart = pt, !.clickSuppressed = FALSE], exit |-> FALSE]

\* a card whose auto-close does not clear the drag start
handlePointerMove_KeepsTracking(c, pt) ==
    IF c.dragStart = <<>> THEN [card |-> c, exit |-> FALSE]
    ELSE LET dx == pt[1] - c.dragStart[1]
             dy == pt[2] - c.dragStart[2]
             moved == [c EXCEPT !.dragOffset = <<dx, dy>>,
                                !.clickSuppressed =
                                    IF HypotExceeds(dx, dy, CLICK_SUPPRESS_DISTANCE)
                                    THEN TRUE ELSE c.clickSuppressed]
             f == finalizeDrag([moved EXCEPT !.isDraggingOut = TRUE], TRUE)
         IN IF HypotExceeds(dx, dy, DRAG_CLOSE_DISTANCE) /\ ~c.isDraggingOut
            THEN [card |-> f.card, exit |-> f.exit]
            ELSE [card |-> moved, exit |-> FALSE]

handlePointerMove(c, pt) ==
    IF c.dragStart = <<>> THEN [card |-> c, exit |-> FALSE]
    ELSE LET dx == pt[1] - c.dragStart[1]
             dy == pt[2] - c.dragStart[2]
             moved == [c EXCEPT !.dragOffset = <<dx, dy>>,
                                !.clickSuppressed =
                                    IF HypotExceeds(dx, dy, CLICK_SUPPRESS_DISTANCE)
                                    THEN TRUE ELSE c.clickSuppressed]
             f == finalizeDrag([moved EXCEPT !.isDraggingOut = TRUE], TRUE)
         IN IF HypotExceeds(dx, dy, DRAG_CLOSE_DISTANCE) /\ ~c.isDraggingOut
            THEN [card |-> [f.card EXCEPT !.dragStart = <<>>], exit |-> f.exit]
            ELSE [card |-> moved, exit |-> FALSE]

\* a card whose pointer-up does not return on a null drag start
handlePointerUp_NoGuard(c) ==
    LET f == finalizeDrag(c, HypotExceeds(c.dragOffset[1], c.dragOffset[2],
                                          DRAG_CLOSE_DISTANCE))
    IN [card |-> [f.card EXCEPT !.dragStart = <<>>, !.isDraggingOut = FALSE],
        exit |-> f.exit]

\* a card whose pointer-up closes from the threshold on (distance >= 100)
handlePointerUp_AtLeast(c) ==
    IF c.dragStart = <<>> THEN [card |-> c, exit |-> FALSE]
    ELSE LET f == finalizeDrag(c, ~HypotExceeds(c.dragOffset[1], c.dragOffset[2],
                                                DRAG_CLOSE_DISTANCE - 1)
                                    \/ HypotExceeds(c.dragOffset[1], c.dragOffset[2],
                                                    DRAG_CLOSE_DISTANCE))
         IN [card |-> [f.card EXCEPT !.dragStart = <<>>, !.isDraggingOut = FALSE],
             exit |-> f.exit]

handlePointerUp(c) ==
    IF c.dragStart = <<>> THEN [card |-> c, exit |-> FALSE]
    ELSE LET f == finalizeDrag(c, HypotExceeds(c.dragOffset[1], c.dragOffset[2],
                                               DRAG_CLOSE_DISTANCE))
         IN [card |-> [f.card EXCEPT !.dragStart = <<>>, !.isDraggingOut = FALSE],
             exit |-> f.exit]

\* a card whose pointer-cancel decides as its pointer-up does
handlePointerCancel_ClosesBeyond(c) ==
    IF c.dragStart = <<>> THEN [card |-> c, exit |-> FALSE]
    ELSE LET f == finalizeDrag(c, HypotExceeds(c.dragOffset[1], c.dragOffset[2],
                                               DRAG_CLOSE_DISTANCE))
         IN [card |-> [f.card EXCEPT !.dragStart = <<>>, !.isDraggingOut = FALSE],
             exit |-> f.exit]

handlePointerCancel(c) ==
    IF c.dragStart = <<>> THEN [card |-> c, exit |-> FALSE]
    ELSE LET f == finalizeDrag(c, FALSE)
         IN [card |-> [f.card EXCEPT !.dragStart = <<>>, !.isDraggingOut = FALSE],
             exit |-> f.exit]

\* a card whose onClick does not reset the suppression flag it consults
handleClick_KeepsFlag(c) ==
    IF c.clickSuppressed
    THEN [card |-> c, fired |-> FALSE]
    ELSE [card |-> c, fired |-> TRUE]

\* onClick of the wrapper, for a card with a click handler: fired is whether
\* the handler of the props ran
handleClick(c) ==
    IF c.clickSuppressed
    THEN [card |-> [c EXCEPT !.clickSuppressed = FALSE], fired |-> FALSE]
    ELSE [card |-> c, fired |-> TRUE]

---------------------------------------------------------------------------
(* Notification store (from the specification, section 4.1) *)

\* notify: the payload plus a fresh id, not exiting
NewNotification(p, id) ==
    [id |-> id, type |-> p.type, colored |-> p.colored, theme |-> p.theme,
     align |-> p.align, duration |-> p.duration, canClose |-> p.canClose,
     hasOnClick |-> p.hasOnClick, isExiting |-> FALSE]

\* a store that arms the timer whatever the duration
SchedulesAutoDismiss_Always(duration) == TRUE

\* a store that never arms the timer of a zero duration
SchedulesAutoDismiss_Positive(duration) == duration > 0

\* "if duration >= 0, schedules an automatic transition to the exiting state"
SchedulesAutoDismiss(duration) == duration >= 0

\* setTimeout(f, delay): a negative delay counts as 0
TimerDelay(delay) == IF delay < 0 THEN 0 ELSE delay

\* exitNotification does something only for a live entry that is not exiting
CanExit(list, id) == id \in Ids(list) /\ ~Entry(list, id).isExiting

\* exitNotification(id): the list it leaves
ExitList(list, id) ==
    IF CanExit(list, id)
    THEN [i \in DOMAIN list |->
            IF list[i].id = id THEN [list[i] EXCEPT !.isExiting = TRUE] ELSE list[i]]
    ELSE list

\* a store whose exitNotification arms the removal timer on every call for a listed id
ExitTimers_Always(list, timers, id) ==
    IF id \in Ids(list) THEN Put(timers, id, EXIT_GRACE) ELSE timers

\* exitNotification(id): the removal timers it leaves
ExitTimers(list, timers, id) ==
    IF CanExit(list, id) THEN Put(timers, id, EXIT_GRACE) ELSE timers

\* the removal timer's callback: the entry leaves the list
RemoveList(list, id) == SelectSeq(list, LAMBDA n : n.id # id)

\* toggleMode
Flip(m) == IF m = "light" THEN "dark" ELSE "light"

---------------------------------------------------------------------------
(* Inputs *)

\* cap of the two history clocks, in ms
HistoryCap == 2000

\* cap of a card's offset on either axis, in px: repeated releases of a flung
\* card push it further each time
OffsetCap == 400

\* how far time advances in one step, besides "up to the next timer"
TickSteps == {250}

Durations == {-1, 0, 1000}

AllAligns == {<<>>} \cup ({"top", "bottom"} \X {"left", "middle", "right"})

\* a second theme override
OTHER_THEME ==
    [backgroundColor |-> "#202020", borderColor |-> "#00ffff", fontColor |-> "#ffff00"]

Themes == {<<>>, <<CUSTOM_THEME>>, <<OTHER_THEME>>}

\* the arguments computeColors is tried on
ColorInputs ==
    [colored : ColoredModes \cup {Undefined}, type : Types, theme : Themes, mode : Modes]

\* the payloads of the theme specification
ThemePayloads ==
    [type : {"info"}, colored : {Undefined, "border", "none"},
     theme : {<<>>, <<CUSTOM_THEME>>}, align : {<<>>},
     duration : {-1, 0}, canClose : {TRUE}, hasOnClick : {FALSE}]

\* the payloads of the bucket-cap specification: the default bucket and a second one
CapPayloads ==
    [type : {"info"}, colored : {Undefined}, theme : {<<>>},
     align : {<<>>, <<"bottom", "right">>}, duration : {-1}, canClose : {TRUE},
     hasOnClick : {FALSE}]

\* the payloads of the anchor specification: every anchor, and none
AlignPayloads ==
    [type : {"info"}, colored : {Undefined}, theme : {<<>>}, align : AllAligns,
     duration : {-1}, canClose : {TRUE}, hasOnClick : {FALSE}]

\* the payloads of the click specification: persistent cards, with and without
\* a click handler
ClickPayloads ==
    [type : {"info"}, colored : {Undefined}, theme : {<<>>}, align : {<<>>},
     duration : {-1}, canClose : {TRUE}, hasOnClick : {TRUE, FALSE}]

\* the coordinates of the offsets finalizeDrag(true) is tried on, and the
\* offsets: those more than 100 px long, as every offset it is called with is
PushCoords == {-150, -101, -7, -6, -1, 0, 1, 6, 7, 101, 150}

PushInputs ==
    {o \in PushCoords \X PushCoords : HypotExceeds(o[1], o[2], DRAG_CLOSE_DISTANCE)}

\* the payloads of the gesture specification
DragPayloads ==
    [type : {"info"}, colored : {Undefined}, theme : {<<>>}, align : {<<>>},
     duration : {-1, 250}, canClose : {TRUE}, hasOnClick : {TRUE}]

\* where the pointer goes down, and where it moves to
DownPoints == {<<10, -20>>}

MovePoints == {<<12, -20>>, <<10, -15>>, <<70, 60>>, <<71, 60>>, <<-100, -17>>}

\* the cards the pointer acts on
DragIds == {1}

\* the payloads of the lifecycle specification
Payloads ==
    [type : {"info"}, colored : {Undefined}, theme : {<<>>},
     align : {<<>>, <<"bottom", "right">>},
     duration : Durations, canClose : {TRUE}, hasOnClick : {FALSE}]

---------------------------------------------------------------------------
(* Events *)

Init ==
    /\ notifications = <<>>
    /\ mode = "light"
    /\ nextId = 1
    /\ autoTimers = <<>>
    /\ removeTimers = <<>>
    /\ previousIndexes = <<>>
    /\ rendered = <<>>
    /\ cards = <<>>
    /\ elapsed = <<>>
    /\ sinceExit = <<>>
    /\ lastLive = <<>>
    /\ ccIn = <<>>
    /\ ccOut = <<>>

Shown(cs) == {cs[i].id : i \in DOMAIN cs}

CardOf(cs, id) == cs[CHOOSE i \in DOMAIN cs : cs[i].id = id]

\* The render React commits after an event that left the store with the list
\* `list` and the mode m and the card components with the refs cs, followed
\* by the cleanup effect (its dependency is the list).  A card that is not
\* rendered has no component, and a card rendered for the first time starts
\* from InitCard.
Commit(list, m, cs) ==
    \E r \in {Render(list, previousIndexes, m)} :
        LET shown == Shown(r.cards)
            live == {id \in shown : ~CardOf(r.cards, id).isExiting}
        IN /\ rendered' = r.cards
           /\ previousIndexes' = IF list # notifications THEN Cleanup(r.prev, list) ELSE r.prev
           /\ cards' = [id \in shown |-> IF id \in DOMAIN cs THEN cs[id] ELSE InitCard]
           /\ lastLive' = [id \in (DOMAIN lastLive \cup live) \cap Ids(list) |->
                              IF id \in live THEN CardOf(r.cards, id).index ELSE lastLive[id]]

\* exitNotification(id), called by an event that leaves the card refs cs
CallExit(id, cs) ==
    /\ notifications' = ExitList(notifications, id)
    /\ removeTimers' = ExitTimers(notifications, removeTimers, id)
    /\ sinceExit' = IF CanExit(notifications, id) THEN Put(sinceExit, id, 0) ELSE sinceExit
    /\ Commit(ExitList(notifications, id), mode, cs)

\* notify(p), while fewer than max ids were handed out
Notify(p, max) ==
    /\ nextId <= max
    /\ notifications' = Append(notifications, NewNotification(p, nextId))
    /\ nextId' = nextId + 1
    /\ autoTimers' = IF SchedulesAutoDismiss(p.duration)
                     THEN Put(autoTimers, nextId, TimerDelay(p.duration)) ELSE autoTimers
    /\ elapsed' = IF p.duration >= 0 THEN Put(elapsed, nextId, 0) ELSE elapsed
    /\ Commit(Append(notifications, NewNotification(p, nextId)), mode, cards)
    /\ UNCHANGED <<mode, removeTimers, sinceExit, ccIn, ccOut>>

\* exitNotification(id) called directly through the hook, for any id
ExitNotification(id) ==
    /\ CallExit(id, cards)
    /\ UNCHANGED <<mode, nextId, autoTimers, elapsed, ccIn, ccOut>>

\* toggleMode()
ToggleMode ==
    /\ mode' = Flip(mode)
    /\ Commit(notifications, Flip(mode), cards)
    /\ UNCHANGED <<notifications, nextId, autoTimers, removeTimers, elapsed, sinceExit,
                   ccIn, ccOut>>

\* the auto-dismiss timer of id fires: exitNotification(id)
AutoDismiss(id) ==
    /\ id \in DOMAIN autoTimers
    /\ autoTimers[id] = 0
    /\ autoTimers' = Drop(autoTimers, id)
    /\ CallExit(id, cards)
    /\ UNCHANGED <<mode, nextId, elapsed, ccIn, ccOut>>

\* the removal timer of id fires
Remove(id) ==
    /\ id \in DOMAIN removeTimers
    /\ removeTimers[id] = 0
    /\ removeTimers' = Drop(removeTimers, id)
    /\ notifications' = RemoveList(notifications, id)
    /\ elapsed' = Drop(elapsed, id)
    /\ sinceExit' = Drop(sinceExit, id)
    /\ Commit(RemoveList(notifications, id), mode, cards)
    /\ UNCHANGED <<mode, nextId, autoTimers, ccIn, ccOut>>

Pending == Range(autoTimers) \cup Range(removeTimers)

Later(f, dt) == [id \in DOMAIN f |-> IF f[id] + dt > HistoryCap THEN HistoryCap ELSE f[id] + dt]

\* dt ms pass; no timer is due before they have passed
Tick(dt) ==
    /\ dt > 0
    /\ \A left \in Pending : dt <= left
    /\ autoTimers' = [id \in DOMAIN autoTimers |-> autoTimers[id] - dt]
    /\ removeTimers' = [id \in DOMAIN removeTimers |-> removeTimers[id] - dt]
    /\ elapsed' = Later(elapsed, dt)
    /\ sinceExit' = Later(sinceExit, dt)
    /\ UNCHANGED <<notifications, mode, nextId, previousIndexes, rendered, cards,
                   lastLive, ccIn, ccOut>>

\* a click on the close button of the card of id
CloseClick(id) ==
    /\ id \in Shown(rendered)
    /\ CardOf(rendered, id).hasClose
    /\ CallExit(id, cards)
    /\ UNCHANGED <<mode, nextId, autoTimers, elapsed, ccIn, ccOut>>

\* a pointer event on the card of id: h is what its handler leaves
Pointer(id, h) ==
    /\ id \in Shown(rendered)
    /\ Abs(h.card.dragOffset[1]) <= OffsetCap
    /\ Abs(h.card.dragOffset[2]) <= OffsetCap
    /\ IF h.exit
       THEN CallExit(id, Put(cards, id, h.card))
       ELSE /\ cards' = Put(cards, id, h.card)
            /\ UNCHANGED <<notifications, removeTimers, sinceExit, previousIndexes,
                           rendered, lastLive>>
    /\ UNCHANGED <<mode, nextId, autoTimers, elapsed, ccIn, ccOut>>

\* what a handler leaves, with the history of the card set to t
Tracked(h, t) == [h EXCEPT !.card.track = t]

\* the history of the card c after an event of its gesture whose handler left h
TrackExit(c, h) ==
    [c.track EXCEPT !.exits = IF h.exit THEN c.track.exits + 1 ELSE c.track.exits]

\* the pointer moves to pt while it is down at c.dragStart: more than 4 px away?
MovesAway(c, pt) ==
    /\ c.dragStart # <<>>
    /\ (pt[1] - c.dragStart[1]) * (pt[1] - c.dragStart[1])
         + (pt[2] - c.dragStart[2]) * (pt[2] - c.dragStart[2]) > 4 * 4

\* the pointer moves to pt while it is down at c.dragStart: more than 100 px away?
MovesBeyond(c, pt) ==
    /\ c.dragStart # <<>>
    /\ (pt[1] - c.dragStart[1]) * (pt[1] - c.dragStart[1])
         + (pt[2] - c.dragStart[2]) * (pt[2] - c.dragStart[2]) > 100 * 100

TrackMove(c, pt, h) ==
    IF MovesAway(c, pt)
    THEN [TrackExit(c, h) EXCEPT !.moved = TRUE, !.fires = <<>>,
                                 !.beyond = c.track.beyond \/ MovesBeyond(c, pt)]
    ELSE TrackExit(c, h)

\* the history of the card c after a click whose handler left h
TrackClick(c, h) ==
    [c.track EXCEPT !.fires = IF Len(c.track.fires) < 2
                              THEN Append(c.track.fires, h.fired)
                              ELSE <<c.track.fires[1], h.fired>>]

PointerDown(id, pt) ==
    /\ id \in DOMAIN cards
    /\ Pointer(id, Tracked(handlePointerDown(cards[id], pt), InitTrack))

PointerMove(id, pt) ==
    /\ id \in DOMAIN cards
    /\ \E h \in {handlePointerMove(cards[id], pt)} :
          Pointer(id, Tracked(h, TrackMove(cards[id], pt, h)))

PointerUp(id) ==
    /\ id \in DOMAIN cards
    /\ \E h \in {handlePointerUp(cards[id])} :
          Pointer(id, Tracked(h, TrackExit(cards[id], h)))

PointerCancel(id) ==
    /\ id \in DOMAIN cards
    /\ \E h \in {handlePointerCancel(cards[id])} :
          Pointer(id, Tracked(h, [TrackExit(cards[id], h) EXCEPT !.cancelled = TRUE]))

\* a click on the card of id, outside its close button
Click(id) ==
    /\ id \in Shown(rendered)
    /\ id \in DOMAIN cards
    /\ CardOf(rendered, id).isClickable
    /\ \E h \in {handleClick(cards[id])} :
          cards' = Put(cards, id, [h.card EXCEPT !.track = TrackClick(cards[id], h)])
    /\ UNCHANGED <<notifications, mode, nextId, autoTimers, removeTimers, previousIndexes,
                   rendered, elapsed, sinceExit, lastLive, ccIn, ccOut>>

---------------------------------------------------------------------------
(* The lifecycle specification: store, timers and manager *)

Next ==
    \/ \E p \in Payloads : Notify(p, MaxNotifs)
    \/ \E id \in 1..(MaxNotifs + 1) : ExitNotification(id)
    \/ \E id \in 1..MaxNotifs : CloseClick(id)
    \/ ToggleMode
    \/ \E id \in 1..MaxNotifs : AutoDismiss(id)
    \/ \E id \in 1..MaxNotifs : Remove(id)
    \/ \E dt \in TickSteps \cup Pending : Tick(dt)

Spec == Init /\ [][Next]_vars

---------------------------------------------------------------------------
(* Properties of the lifecycle *)

Created == 1..(nextId - 1)

IsLive(list, id) == id \in Ids(list)

IsExiting(list, id) == id \in Ids(list) /\ Entry(list, id).isExiting

\* C1, the state part: a listed entry with a duration d >= 0 has been in the
\* list for at most d + grace ms, and is marked exiting once more than d ms
\* have passed since its notify.
C1_Timing ==
    \A i \in DOMAIN notifications :
        LET n == notifications[i] IN
        n.duration >= 0 =>
            /\ n.id \in DOMAIN elapsed
            /\ elapsed[n.id] <= n.duration + EXIT_GRACE
            /\ (elapsed[n.id] > n.duration => n.isExiting)

\* C1, the step part: notify leaves its notification in the list.
C1_Step ==
    \A p \in Payloads : Notify(p, MaxNotifs) => nextId \in Ids(notifications')

\* C1: every notify with a duration d >= 0 leaves the notification in the
\* list; the entry is exiting once d ms have passed and gone from the list
\* once d + 250 ms have passed, whatever notify, exit and toggleMode calls
\* interleave.
C1_AutoDismiss == [] C1_Timing /\ [][C1_Step]_vars

\* C1 witness: the 1000 ms notification of the tests, exiting, 1250 ms after
\* its notify, with another notification beside it and the mode toggled.
C1_Witness ==
    /\ mode = "dark"
    /\ Len(notifications) >= 2
    /\ \E i \in DOMAIN notifications :
          /\ notifications[i].duration = 1000
          /\ notifications[i].isExiting
          /\ notifications[i].id \in DOMAIN elapsed
          /\ elapsed[notifications[i].id] = 1250

\* C4, one step for one id: exiting stays exiting, in the list and on the
\* screen; a removed id stays removed; only an exiting entry leaves the list.
C4_StepOf(id) ==
    /\ (IsExiting(notifications, id) /\ IsLive(notifications', id))
          => IsExiting(notifications', id)
    /\ IsExiting(notifications, id)
          => \A k \in DOMAIN rendered' : rendered'[k].id = id => rendered'[k].isExiting
    /\ ~IsLive(notifications, id)
          => (~IsLive(notifications', id) /\ id \notin Shown(rendered'))
    /\ (IsLive(notifications, id) /\ ~IsLive(notifications', id))
          => IsExiting(notifications, id)

\* C4: the lifecycle of every id only moves forward, live -> exiting ->
\* removed: an exiting entry is never shown as non-exiting again, a removed
\* id never comes back, and no entry leaves the list without having been
\* marked exiting.
C4_Monotone == [][\A id \in Created : C4_StepOf(id)]_vars

\* C4 witness: one id removed, another exiting and shown as exiting.
C4_Witness ==
    /\ \E id \in Created : ~IsLive(notifications, id)
    /\ \E k \in DOMAIN rendered : rendered[k].isExiting

\* the number of non-exiting cards rendered before the k-th card in its bucket
LiveAhead(cs, k) ==
    Cardinality({j \in 1..(k - 1) : cs[j].bucket = cs[k].bucket /\ ~cs[j].isExiting})

\* C6, the state part: an exiting card that was rendered non-exiting before
\* carries the index of the last render that showed it non-exiting.
C6_KeepsLastLive ==
    \A k \in DOMAIN rendered :
        (rendered[k].isExiting /\ rendered[k].id \in DOMAIN lastLive)
            => rendered[k].index = lastLive[rendered[k].id]

\* C6, the step part: from one render to the next an exiting card keeps its index.
C6_Step ==
    \A k \in DOMAIN rendered : \A j \in DOMAIN rendered' :
        (rendered[k].isExiting /\ rendered'[j].id = rendered[k].id)
            => rendered'[j].index = rendered[k].index

\* C6: from the render that first shows an entry exiting until the entry is
\* removed, its stacking index is the one of the last render before the exit
\* began, whatever entries of its bucket are added, exit or are removed.
C6_StableExitIndex == [] C6_KeepsLastLive /\ [][C6_Step]_vars

\* C6 witness: an exiting card whose kept index is not the one a fresh count
\* of the non-exiting cards before it would give.
C6_Witness ==
    \E k \in DOMAIN rendered :
        /\ rendered[k].isExiting
        /\ rendered[k].id \in DOMAIN lastLive
        /\ rendered[k].index # LiveAhead(rendered, k)

\* C20: after every render and its cleanup effect, the keys of the map of
\* previous stacking indices are ids of the list: an id removed from the list
\* has no entry left, and no entry outlives its notification.
C20_IndexesCollected ==
    /\ DOMAIN previousIndexes \subseteq Ids(notifications)
    /\ \A id \in Created : ~IsLive(notifications, id) => id \notin DOMAIN previousIndexes

\* C20 witness: a notification that was rendered has been removed, and the
\* map still holds the index of another one that is on the screen.
C20_Witness ==
    /\ \E id \in Created : ~IsLive(notifications, id)
    /\ \E id \in DOMAIN previousIndexes : id \in Shown(rendered)
    /\ mode = "dark"

---------------------------------------------------------------------------
(* The colors specification: computeColors on every input *)

InitColors ==
    /\ notifications = <<>>
    /\ mode = "light"
    /\ nextId = 1
    /\ autoTimers = <<>>
    /\ removeTimers = <<>>
    /\ previousIndexes = <<>>
    /\ rendered = <<>>
    /\ cards = <<>>
    /\ elapsed = <<>>
    /\ sinceExit = <<>>
    /\ lastLive = <<>>
    /\ ccIn \in ColorInputs
    /\ ccOut = <<>>

\* the card computes the colors of its props
ComputeColors ==
    /\ ccOut = <<>>
    /\ ccOut' = <<computeColors(ColoredOrFull(ccIn.colored), ccIn.type, ccIn.theme,
                                lightTheme, darkTheme, ccIn.mode)>>
    /\ UNCHANGED <<notifications, mode, nextId, autoTimers, removeTimers,
                   previousIndexes, rendered, cards, elapsed, sinceExit, lastLive, ccIn>>

NextColors == ComputeColors

SpecColors == InitColors /\ [][NextColors]_vars

\* the theme in effect: the override if given, else the palette's entry for the type
EffectiveTheme(theme, type, m) == IF theme # <<>> THEN theme[1] ELSE PaletteOf(m)[type]

\* the colored-mode table of the card
TableColors(colored, type, theme, m) ==
    LET eff == EffectiveTheme(theme, type, m)
        none == PaletteOf(m)["none"]
    IN IF colored = "full"
       THEN [bg |-> eff.backgroundColor, border |-> eff.borderColor, color |-> eff.fontColor]
       ELSE IF colored = "border"
       THEN [bg |-> none.backgroundColor, border |-> eff.borderColor, color |-> eff.fontColor]
       ELSE [bg |-> none.backgroundColor, border |-> none.borderColor, color |-> none.fontColor]

\* C8: computeColors follows the colored-mode table for every colored mode,
\* type, theme override and mode, and the result of "none" is the same for
\* every type and every override.
C8_ColorTable ==
    (ccOut # <<>> /\ ccIn.colored \in ColoredModes) =>
        /\ ccOut[1] = TableColors(ccIn.colored, ccIn.type, ccIn.theme, ccIn.mode)
        /\ ccIn.colored = "none" =>
              \A t \in Types : \A u \in Themes :
                  computeColors("none", t, u, lightTheme, darkTheme, ccIn.mode) = ccOut[1]

\* C8 witness: the "border" mode computed with an override under the dark mode.
C8_Witness ==
    /\ ccOut # <<>>
    /\ ccIn.colored = "border"
    /\ ccIn.theme = <<CUSTOM_THEME>>
    /\ ccIn.mode = "dark"
    /\ ccOut[1].bg = darkTheme["none"].backgroundColor
    /\ ccOut[1].border = CUSTOM_THEME.borderColor

---------------------------------------------------------------------------
(* The theme specification: the lifecycle with every colored mode, with and
   without a theme override *)

NextTheme ==
    \/ \E p \in ThemePayloads : Notify(p, ThemeNotifs)
    \/ \E id \in 1..(ThemeNotifs + 1) : ExitNotification(id)
    \/ \E id \in 1..ThemeNotifs : CloseClick(id)
    \/ ToggleMode
    \/ \E id \in 1..ThemeNotifs : AutoDismiss(id)
    \/ \E id \in 1..ThemeNotifs : Remove(id)
    \/ \E dt \in TickSteps \cup Pending : Tick(dt)

SpecTheme == Init /\ [][NextTheme]_vars

\* every color of the card is a color of the palette of the mode m
OfPalette(card, m) ==
    /\ card.bg \in {PaletteOf(m)[t].backgroundColor : t \in Types}
    /\ card.border \in {PaletteOf(m)[t].borderColor : t \in Types}
    /\ card.color \in {PaletteOf(m)[t].fontColor : t \in Types}

CardColors(card) == [bg |-> card.bg, border |-> card.border, color |-> card.color]

SameCardsInOrder ==
    /\ Len(rendered') = Len(rendered)
    /\ \A k \in DOMAIN rendered : rendered'[k].id = rendered[k].id

\* C7 as stated: toggleMode flips the mode and leaves every displayed card
\* with the colors of the opposite palette, ids and order unchanged.
C7_AllOfOppositePalette ==
    [][ToggleMode =>
          /\ mode' = Flip(mode)
          /\ notifications' = notifications
          /\ SameCardsInOrder
          /\ \A k \in DOMAIN rendered' : OfPalette(rendered'[k], Flip(mode))]_vars

\* C7 as amended: toggleMode flips the mode and leaves every displayed card
\* with the colors the colored-mode table gives under the new mode: those of
\* the opposite palette for a card without a theme override, the override's
\* wherever the table reads the effective theme; ids and order unchanged.
C7_RecomputedUnderNewMode ==
    [][ToggleMode =>
          /\ mode' = Flip(mode)
          /\ notifications' = notifications
          /\ SameCardsInOrder
          /\ \A k \in DOMAIN rendered' :
                LET n == Entry(notifications, rendered'[k].id) IN
                /\ CardColors(rendered'[k]) =
                       TableColors(ColoredOrFull(n.colored), n.type, n.theme, Flip(mode))
                /\ n.theme = <<>> => OfPalette(rendered'[k], Flip(mode))]_vars

\* C7 witness: under the dark mode, a card with the override's background
\* beside a card with the dark palette's.
C7_Witness ==
    /\ mode = "dark"
    /\ \E k \in DOMAIN rendered : rendered[k].bg = CUSTOM_THEME.backgroundColor
    /\ \E k \in DOMAIN rendered : rendered[k].bg = darkTheme["info"].backgroundColor

---------------------------------------------------------------------------
(* The bucket-cap specification: more notifications than a bucket shows *)

\* the entries that have been marked exiting so far, removed ones included
ExitedSoFar ==
    (nextId - 1) - Cardinality({i \in DOMAIN notifications : ~notifications[i].isExiting})

\* the notify calls that may name the second bucket
CapOtherIds == {3}

NextCap ==
    \/ \E p \in CapPayloads :
          /\ p.align # <<>> => nextId \in CapOtherIds
          /\ Notify(p, CapNotifs)
    \/ \E id \in 1..CapNotifs : ExitedSoFar < CapExits /\ ExitNotification(id)
    \/ \E id \in 1..CapNotifs : ExitedSoFar < CapExits /\ CloseClick(id)
    \/ \E id \in 1..CapNotifs : Remove(id)
    \/ \E dt \in TickSteps \cup Pending : Tick(dt)

SpecCap == Init /\ [][NextCap]_vars

\* the entries of the list that belong to the anchor key, in list order
BucketOf(list, key) ==
    SelectSeq(list, LAMBDA n :
        key = (IF n.align = <<>> THEN "top-middle" ELSE n.align[1] \o "-" \o n.align[2]))

\* the ids of the cards rendered for the anchor key, in render order
RenderedIds(cs, key) ==
    LET own == SelectSeq(cs, LAMBDA c : c.bucket = key)
    IN [k \in DOMAIN own |-> own[k].id]

FirstIds(bucket, k) ==
    [i \in 1..(IF Len(bucket) < k THEN Len(bucket) ELSE k) |-> bucket[i].id]

\* C5, the state part: the cards of a bucket are its first 7 entries, exiting or not.
C5_FirstSeven ==
    \A k \in DOMAIN ORDER :
        /\ Len(RenderedIds(rendered, ORDER[k])) <= 7
        /\ RenderedIds(rendered, ORDER[k]) = FirstIds(BucketOf(notifications, ORDER[k]), 7)

\* C5, the step part: a listed entry that was not rendered gets rendered only
\* in a step that removes an entry ahead of it in its bucket.
C5_Step ==
    \A i \in DOMAIN notifications :
        (notifications[i].id \notin Shown(rendered) /\ notifications[i].id \in Shown(rendered'))
            => \E j \in 1..(i - 1) :
                  /\ KeyOf(notifications[j]) = KeyOf(notifications[i])
                  /\ notifications[j].id \notin Ids(notifications')

\* C5: the manager renders at most 7 cards per anchor bucket, the first 7
\* entries of the bucket in list order, exiting ones included; a later entry
\* is not rendered until an entry ahead of it has been removed.
C5_BucketCap == [] C5_FirstSeven /\ [][C5_Step]_vars

\* C5 witness: a listed entry is not rendered while an exiting card still
\* holds one of the 7 places of its bucket.
C5_Witness ==
    /\ \E i \in DOMAIN notifications : notifications[i].id \notin Shown(rendered)
    /\ \E k \in DOMAIN rendered : rendered[k].isExiting
    /\ Len(rendered) = 7

\* the non-exiting cards rendered for the anchor key, in render order
LiveCards(cs, key) == SelectSeq(cs, LAMBDA c : c.bucket = key /\ ~c.isExiting)

\* C11: in every render, the non-exiting cards of a bucket carry the stacking
\* indices 0, 1, ..., k-1 in list order: the index of a non-exiting card is the
\* number of non-exiting entries of the list that precede its entry in its
\* bucket, so no two non-exiting cards of a bucket share an index.
C11_StackingIndices ==
    \A b \in DOMAIN ORDER :
        LET own == BucketOf(notifications, ORDER[b])
            live == LiveCards(rendered, ORDER[b])
        IN /\ \A k \in DOMAIN live : live[k].index = k - 1
           /\ \A k \in DOMAIN live :
                 \E j \in DOMAIN own :
                    /\ own[j].id = live[k].id
                    /\ ~own[j].isExiting
                    /\ live[k].index = Cardinality({i \in 1..(j - 1) : ~own[i].isExiting})
           /\ \A k, l \in DOMAIN live : k < l => live[k].id < live[l].id

\* C11 witness: a bucket shows a non-exiting card, then two exiting cards,
\* then two more non-exiting cards, which carry the indices 1 and 2.
C11_Witness ==
    \E k \in DOMAIN rendered :
        /\ k + 4 \in DOMAIN rendered
        /\ \A d \in 1..4 : rendered[k + d].bucket = rendered[k].bucket
        /\ ~rendered[k].isExiting
        /\ rendered[k + 1].isExiting
        /\ rendered[k + 2].isExiting
        /\ ~rendered[k + 3].isExiting /\ rendered[k + 3].index = 1
        /\ ~rendered[k + 4].isExiting /\ rendered[k + 4].index = 2

---------------------------------------------------------------------------
(* The gesture specification: the lifecycle with the pointer on a card *)

NextDrag ==
    \/ \E p \in DragPayloads : Notify(p, DragNotifs)
    \/ \E id \in 1..(DragNotifs + 1) : ExitNotification(id)
    \/ \E id \in 1..DragNotifs : CloseClick(id)
    \/ \E id \in 1..DragNotifs : AutoDismiss(id)
    \/ \E id \in 1..DragNotifs : Remove(id)
    \/ \E dt \in TickSteps \cup Pending : Tick(dt)
    \/ \E id \in DragIds : \E pt \in DownPoints : PointerDown(id, pt)
    \/ \E id \in DragIds : \E pt \in MovePoints : PointerMove(id, pt)
    \/ \E id \in DragIds : PointerUp(id)
    \/ \E id \in DragIds : PointerCancel(id)

SpecDrag == Init /\ [][NextDrag]_vars

\* a displacement of more than 100 px
Beyond(dx, dy) == dx * dx + dy * dy > 100 * 100

\* a pointer event on the card of id whose handler calls exitNotification(id)
DragExit(id) ==
    \/ \E pt \in MovePoints :
          /\ PointerMove(id, pt)
          /\ handlePointerMove(cards[id], pt).exit
    \/ /\ PointerUp(id)
       /\ handlePointerUp(cards[id]).exit

\* an entry leaves the list only one grace period after it was marked exiting
RemovedOnTime(id) ==
    (IsLive(notifications, id) /\ ~IsLive(notifications', id))
        => /\ IsExiting(notifications, id)
           /\ id \in DOMAIN sinceExit
           /\ sinceExit[id] = EXIT_GRACE

\* C2, one step: a listed entry with a negative duration that is not exiting
\* is still listed and not exiting after the step, unless the step is a click
\* on its close button, an exitNotification call for its id, or a drag of its
\* card that dismisses it.
C2_Step ==
    \A i \in DOMAIN notifications :
        LET n == notifications[i] IN
        (n.duration < 0 /\ ~n.isExiting)
            => \/ IsLive(notifications', n.id) /\ ~IsExiting(notifications', n.id)
               \/ CloseClick(n.id)
               \/ ExitNotification(n.id)
               \/ DragExit(n.id)

\* C2: a notification with a negative duration persists until a manual close
\* or a drag-dismiss; the passage of time never dismisses it.
C2_Persistent == [][C2_Step]_vars

\* C2 witness: a persistent notification is still live, after a drag of its
\* card that stayed below the threshold was released, and after a 250 ms
\* notification created after it has come and gone.
C2_Witness ==
    \E i \in DOMAIN notifications :
        LET n == notifications[i] IN
        /\ n.duration < 0
        /\ ~n.isExiting
        /\ n.id \in DOMAIN cards
        /\ cards[n.id].clickSuppressed
        /\ cards[n.id].dragStart = <<>>
        /\ cards[n.id].dragOffset = <<0, 0>>
        /\ \E o \in Created : o > n.id /\ ~IsLive(notifications, o)

\* any caller of exitNotification(id): the close button, the hook, the
\* auto-dismiss timer, a drag
ExitCall(id) ==
    \/ CloseClick(id)
    \/ ExitNotification(id)
    \/ AutoDismiss(id)
    \/ DragExit(id)

\* the step changes the list, the removal timers or the cards rendered
StoreChanges ==
    \/ notifications' # notifications
    \/ removeTimers' # removeTimers
    \/ sinceExit' # sinceExit
    \/ rendered' # rendered

\* C3, the state part: exactly the exiting entries have a removal timer
\* pending, and it is due one grace period after the entry was marked.
C3_OneRemovalPending ==
    /\ \A id \in DOMAIN removeTimers : IsExiting(notifications, id)
    /\ \A i \in DOMAIN notifications :
          LET n == notifications[i] IN
          n.isExiting
              => /\ n.id \in DOMAIN removeTimers
                 /\ n.id \in DOMAIN sinceExit
                 /\ removeTimers[n.id] + sinceExit[n.id] = EXIT_GRACE

\* C3, the step part: no step that changes the list, the removal timers or
\* the cards rendered is an exit call for an id that is exiting or not in the
\* list; an entry leaves the list one grace period after it was marked;
\* a removed id does not come back.
C3_Step ==
    \A id \in 1..(DragNotifs + 1) :
        /\ ((~IsLive(notifications, id) \/ IsExiting(notifications, id)) /\ StoreChanges)
              => ~ExitCall(id)
        /\ RemovedOnTime(id)
        /\ (id \in Created /\ ~IsLive(notifications, id)) => ~IsLive(notifications', id)

\* C3: the exit operation is idempotent: calling it for an id that is
\* already exiting or already removed is a no-op, whoever calls it, and the
\* entry is removed exactly once, one grace period after the first exit.
C3_ExitIdempotent == [] C3_OneRemovalPending /\ [][C3_Step]_vars

\* C3 witness: the auto-dismiss timer of a notification is about to fire
\* after the notification was closed by hand and removed.
C3_Witness ==
    \E id \in DOMAIN autoTimers :
        /\ autoTimers[id] = 0
        /\ id \in Created
        /\ ~IsLive(notifications, id)

\* the pointer is down on the card of id and it moves to, or is released
\* at, more than 100 px from where it went down
DraggedOut(id) ==
    /\ id \in DOMAIN cards
    /\ cards[id].dragStart # <<>>
    /\ \/ \E pt \in MovePoints :
             /\ Beyond(pt[1] - cards[id].dragStart[1], pt[2] - cards[id].dragStart[2])
             /\ PointerMove(id, pt)
       \/ /\ Beyond(cards[id].dragOffset[1], cards[id].dragOffset[2])
          /\ PointerUp(id)

\* what exitNotification(id) does to the store
ExitEffect(id) ==
    IF IsLive(notifications, id)
    THEN /\ Len(notifications') = Len(notifications)
         /\ \A i \in DOMAIN notifications :
               notifications'[i] =
                   IF notifications[i].id = id
                   THEN [notifications[i] EXCEPT !.isExiting = TRUE]
                   ELSE notifications[i]
         /\ DOMAIN removeTimers' = DOMAIN removeTimers \cup {id}
         /\ \A o \in DOMAIN removeTimers' :
               removeTimers'[o] =
                   IF o = id /\ ~IsExiting(notifications, id)
                   THEN EXIT_GRACE ELSE removeTimers[o]
    ELSE notifications' = notifications /\ removeTimers' = removeTimers

\* C9, the step part
C9_Step ==
    \A id \in 1..DragNotifs :
        /\ DraggedOut(id) => ExitEffect(id)
        /\ ~ExitEffect(id) => ~CloseClick(id)
        /\ RemovedOnTime(id)

\* C9: a drag of a card to more than 100 px from the pointer-down point does
\* to the store what a click on its close button does: exitNotification is
\* called for the id of the card, the entry becomes exiting, and it leaves
\* the list 250 ms later.
C9_DragIsClose == [][C9_Step]_vars

\* C9 witness: an entry dismissed by a drag (its card is flung beyond the
\* threshold and the pointer is released) is exiting and due for removal.
C9_Witness ==
    \E id \in DOMAIN cards :
        /\ IsExiting(notifications, id)
        /\ cards[id].dragStart = <<>>
        /\ Beyond(cards[id].dragOffset[1], cards[id].dragOffset[2])
        /\ id \in DOMAIN sinceExit
        /\ sinceExit[id] = EXIT_GRACE

\* a displacement of at least 100 px
AtLeast(dx, dy) == dx * dx + dy * dy >= 100 * 100

\* the step is an event of the card of id in which it calls exitNotification
ExitRequested(id) ==
    /\ id \in DOMAIN cards'
    /\ cards'[id].track.exits = cards[id].track.exits + 1

\* the step is an event of the card of id in which it does not call
\* exitNotification, and the store is as it was
NoExitRequested(id) ==
    /\ id \in DOMAIN cards'
    /\ cards'[id].track.exits = cards[id].track.exits
    /\ notifications' = notifications
    /\ removeTimers' = removeTimers

\* C12 as claimed: on a pointer-up while a drag start is recorded (the gesture
\* was not auto-closed), the card exits if the offset at release is at least
\* 100 px, and otherwise snaps back to zero offset without exiting.
C12_ExitAtThreshold ==
    [][\A id \in DragIds :
          (id \in DOMAIN cards /\ cards[id].dragStart # <<>> /\ PointerUp(id))
              => IF AtLeast(cards[id].dragOffset[1], cards[id].dragOffset[2])
                 THEN ExitRequested(id) /\ IsExiting(notifications', id)
                 ELSE cards'[id].dragOffset = <<0, 0>> /\ NoExitRequested(id)]_vars

\* C12 amended: on a pointer-up while a drag start is recorded, the card
\* exits if the offset at release is more than 100 px, and otherwise, at
\* exactly 100 px too, snaps back to zero offset without exiting.
C12_ExitBeyondThreshold ==
    [][\A id \in DragIds :
          (id \in DOMAIN cards /\ cards[id].dragStart # <<>> /\ PointerUp(id))
              => IF Beyond(cards[id].dragOffset[1], cards[id].dragOffset[2])
                 THEN ExitRequested(id) /\ IsExiting(notifications', id)
                 ELSE cards'[id].dragOffset = <<0, 0>> /\ NoExitRequested(id)]_vars

\* C12 witness: the pointer is down on a card dragged to exactly 100 px, which
\* no move has auto-closed: its entry is not exiting.
C12_Witness ==
    \E id \in DOMAIN cards :
        /\ cards[id].dragStart # <<>>
        /\ cards[id].dragOffset = <<60, 80>>
        /\ cards[id].track.exits = 0
        /\ IsLive(notifications, id) /\ ~IsExiting(notifications, id)

\* C13: in every gesture begun by a pointer-down on a card, the first move
\* that goes more than 100 px from the pointer-down point calls
\* exitNotification and releases the pointer (the drag start is cleared) on
\* that very move, also when an earlier gesture on the card was auto-closed.
C13_AutoClosePerGesture ==
    [][\A id \in DragIds : \A pt \in MovePoints :
          (/\ id \in DOMAIN cards
           /\ ~cards[id].track.beyond
           /\ MovesBeyond(cards[id], pt)
           /\ PointerMove(id, pt))
              => /\ ExitRequested(id)
                 /\ cards'[id].dragStart = <<>>]_vars

\* a pointer-move, pointer-up or pointer-cancel on the card of id
LaterEvent(id) ==
    \/ \E pt \in MovePoints : PointerMove(id, pt)
    \/ PointerUp(id)
    \/ PointerCancel(id)

\* C14, the state part: the pointer handlers of a card call exitNotification
\* at most once between two pointer-downs.
C14_AtMostOnce == \A id \in DOMAIN cards : cards[id].track.exits <= 1

\* C14, the step part: once the card has called exitNotification in a gesture,
\* a pointer-move, pointer-up or pointer-cancel leaves the offset as it is and
\* calls it no more; and the card calls it only in a move to, or a release
\* at, more than 100 px.
C14_Step ==
    \A id \in DragIds :
        id \in DOMAIN cards =>
            /\ (cards[id].track.exits >= 1 /\ LaterEvent(id))
                  => /\ cards'[id].dragOffset = cards[id].dragOffset
                     /\ NoExitRequested(id)
            /\ ExitRequested(id)
                  => /\ \/ \E pt \in MovePoints :
                              MovesBeyond(cards[id], pt) /\ PointerMove(id, pt)
                        \/ /\ Beyond(cards[id].dragOffset[1], cards[id].dragOffset[2])
                           /\ PointerUp(id)
                     /\ Beyond(cards'[id].dragOffset[1], cards'[id].dragOffset[2])

\* C14: once a pointer-move has auto-closed a gesture, every later
\* pointer-move, pointer-up and pointer-cancel up to the next pointer-down
\* leaves the drag offset unchanged and requests no exit, so in one gesture
\* the card requests exit at most once, and only with an offset beyond 100 px.
C14_OneExitPerGesture == [] C14_AtMostOnce /\ [][C14_Step]_vars

\* C14 witness: a move has auto-closed the gesture of a card: exit was
\* requested once, the drag start is cleared and the card is flung.
C14_Witness ==
    \E id \in DOMAIN cards :
        /\ cards[id].track.exits = 1
        /\ cards[id].isDraggingOut
        /\ cards[id].dragStart = <<>>
        /\ Beyond(cards[id].dragOffset[1], cards[id].dragOffset[2])
        /\ IsExiting(notifications, id)

\* C17 as claimed: after a pointer-cancel, and until the next pointer-down,
\* the card is at zero drag offset, whatever displacement the gesture reached.
C17_CancelAlwaysSnapsBack ==
    \A id \in DOMAIN cards :
        cards[id].track.cancelled => cards[id].dragOffset = <<0, 0>>

\* C17 amended: a pointer-cancel never requests exit; one that arrives while
\* a drag start is recorded snaps the card back to zero drag offset, whatever
\* the displacement reached (above 100 px too); one that arrives with no drag
\* start recorded, as after an auto-close, leaves the offset as it is.
C17_CancelNeverExits ==
    [][\A id \in DragIds :
          (id \in DOMAIN cards /\ PointerCancel(id))
              => /\ NoExitRequested(id)
                 /\ cards'[id].dragOffset =
                       IF cards[id].dragStart # <<>> THEN <<0, 0>>
                       ELSE cards[id].dragOffset]_vars

\* C17 witness: a gesture that went beyond 100 px without an auto-close was
\* cancelled: the card is back at zero offset and the gesture requested no exit.
C17_Witness ==
    \E id \in DOMAIN cards :
        /\ cards[id].track.cancelled
        /\ cards[id].track.beyond
        /\ cards[id].track.exits = 0
        /\ cards[id].dragStart = <<>>
        /\ cards[id].dragOffset = <<0, 0>>

\* C18: a pointer-move, pointer-up or pointer-cancel that arrives while no
\* drag start is recorded is a no-op: it leaves the drag offset and the
\* click-suppression flag as they are, records no drag start and does not
\* request exit.
C18_NoOpWithoutStart ==
    [][\A id \in DragIds :
          (id \in DOMAIN cards /\ cards[id].dragStart = <<>> /\ LaterEvent(id))
              => /\ cards'[id].dragOffset = cards[id].dragOffset
                 /\ cards'[id].clickSuppressed = cards[id].clickSuppressed
                 /\ cards'[id].dragStart = <<>>
                 /\ NoExitRequested(id)]_vars

\* C18 witness: a pointer-cancel arrived after a move had auto-closed the
\* gesture and cleared the drag start: the card is still flung, exit was
\* requested once.
C18_Witness ==
    \E id \in DOMAIN cards :
        /\ cards[id].track.cancelled
        /\ cards[id].track.exits = 1
        /\ cards[id].isDraggingOut
        /\ cards[id].dragStart = <<>>
        /\ cards[id].clickSuppressed
        /\ Beyond(cards[id].dragOffset[1], cards[id].dragOffset[2])

\* C19: whenever no drag start is recorded on a card, its drag offset is
\* (0, 0) or the card has requested exit (and its entry is exiting): a card
\* that is live and not exiting is never left displaced after a gesture.
C19_IdleAtRest ==
    \A id \in DOMAIN cards :
        cards[id].dragStart = <<>>
            => \/ cards[id].dragOffset = <<0, 0>>
               \/ /\ cards[id].track.exits >= 1
                  /\ IsExiting(notifications, id)

\* C19 witness: a gesture moved the card and ended without exit: the card is
\* at rest at zero offset, its entry live and not exiting.
C19_Witness ==
    \E id \in DOMAIN cards :
        /\ cards[id].dragStart = <<>>
        /\ cards[id].track.moved
        /\ cards[id].track.exits = 0
        /\ cards[id].dragOffset = <<0, 0>>
        /\ IsLive(notifications, id)
        /\ ~IsExiting(notifications, id)

---------------------------------------------------------------------------
(* The anchor specification: notifications at every anchor, closed by hand *)

NextAlign ==
    \/ \E p \in AlignPayloads : Notify(p, AlignNotifs)
    \/ \E id \in 1..(AlignNotifs + 1) : ExitNotification(id)
    \/ \E id \in 1..AlignNotifs : CloseClick(id)
    \/ \E id \in 1..AlignNotifs : Remove(id)
    \/ \E dt \in TickSteps \cup Pending : Tick(dt)

SpecAlign == Init /\ [][NextAlign]_vars

\* the anchor of an entry: its align, top-middle when it has none
AnchorOf(n) == IF n.align = <<>> THEN <<"top", "middle">> ELSE n.align

\* the places an id takes in a bucket
PlacesIn(bucket, id) == {j \in DOMAIN bucket : bucket[j].id = id}

\* C10: every notification of the list is in exactly one of the six anchor
\* buckets, the one of its (vertical, horizontal) align, top-middle when it
\* has none; no bucket has another key; the entry is rendered once, in that
\* bucket, when it is among the first 7 of the bucket, and not at all otherwise.
C10_OneBucket ==
    LET g == groups(notifications) IN
    /\ DOMAIN g \subseteq Range(ORDER)
    /\ \A i \in DOMAIN notifications :
          LET n == notifications[i]
              a == AnchorOf(n)
              own == a[1] \o "-" \o a[2]
              at == {k \in DOMAIN rendered : rendered[k].id = n.id}
          IN /\ Cardinality({k \in DOMAIN ORDER :
                                /\ ORDER[k] \in DOMAIN g
                                /\ PlacesIn(g[ORDER[k]], n.id) # {}}) = 1
             /\ own \in DOMAIN g
             /\ Cardinality(PlacesIn(g[own], n.id)) = 1
             /\ Cardinality(at) =
                   (IF \A j \in PlacesIn(g[own], n.id) : j <= 7 THEN 1 ELSE 0)
             /\ \A k \in at :
                   /\ rendered[k].bucket = own
                   /\ rendered[k].veticalAlign = a[1]
                   /\ rendered[k].horizontalAlign = a[2]

\* C10 witness: a notification without align, exiting, and a notification at
\* the bottom left are on the screen, each in its own bucket.
C10_Witness ==
    /\ \E k \in DOMAIN rendered : rendered[k].bucket = "top-middle" /\ rendered[k].isExiting
    /\ \E k \in DOMAIN rendered : rendered[k].bucket = "bottom-left"
    /\ \E i \in DOMAIN notifications : notifications[i].align = <<>>

---------------------------------------------------------------------------
(* The click specification: gestures and clicks on a card *)

NextClick ==
    \/ \E p \in ClickPayloads : Notify(p, ClickNotifs)
    \/ \E id \in 1..ClickNotifs : CloseClick(id)
    \/ \E id \in 1..ClickNotifs : Remove(id)
    \/ \E dt \in TickSteps \cup Pending : Tick(dt)
    \/ \E id \in DragIds : \E pt \in DownPoints : PointerDown(id, pt)
    \/ \E id \in DragIds : \E pt \in MovePoints : PointerMove(id, pt)
    \/ \E id \in DragIds : PointerUp(id)
    \/ \E id \in DragIds : PointerCancel(id)
    \/ \E id \in DragIds : Click(id)

SpecClick == Init /\ [][NextClick]_vars

\* C16, one step: a click on a card with a click handler does not run the
\* handler, and clears the suppression flag, when it is the first click since
\* a move of the last gesture went more than 4 px from the pointer-down point;
\* every other click runs the handler.
C16_Step ==
    \A id \in DragIds :
        (id \in DOMAIN cards /\ Click(id))
            => LET t == cards[id].track
                   after == cards'[id].track.fires
               IN /\ after # <<>>
                  /\ after[Len(after)] = ~(t.moved /\ t.fires = <<>>)
                  /\ ~cards'[id].clickSuppressed

\* C16: after a gesture with a move of more than 4 px from the pointer-down
\* point, the next click on the card does not invoke the click handler and
\* clears the suppression flag, so the click after it does invoke the handler;
\* a click after a gesture without such a move invokes the handler, because
\* every pointer-down clears the flag.
C16_ClickSuppression == [][C16_Step]_vars

\* C16 witness: after a gesture that moved more than 4 px and was released,
\* the card was clicked twice: the first click did not run the handler, the
\* second did.
C16_Witness ==
    \E id \in DOMAIN cards :
        /\ cards[id].track.moved
        /\ cards[id].dragStart = <<>>
        /\ cards[id].track.fires = <<FALSE, TRUE>>
        /\ ~cards[id].clickSuppressed

---------------------------------------------------------------------------
(* The push specification: finalizeDrag(true) on every offset *)

InitPush ==
    /\ notifications = <<>>
    /\ mode = "light"
    /\ nextId = 1
    /\ autoTimers = <<>>
    /\ removeTimers = <<>>
    /\ previousIndexes = <<>>
    /\ rendered = <<>>
    /\ cards = <<>>
    /\ elapsed = <<>>
    /\ sinceExit = <<>>
    /\ lastLive = <<>>
    /\ ccIn \in PushInputs
    /\ ccOut = <<>>

\* a card whose drag offset is ccIn finalizes the drag with exit
FinalizeExit ==
    /\ ccOut = <<>>
    /\ ccOut' = <<finalizeDrag([InitCard EXCEPT !.dragOffset = ccIn], TRUE)>>
    /\ UNCHANGED <<notifications, mode, nextId, autoTimers, removeTimers,
                   previousIndexes, rendered, cards, elapsed, sinceExit, lastLive, ccIn>>

NextPush == FinalizeExit

SpecPush == InitPush /\ [][NextPush]_vars

\* the push of one component, as claimed
PushOf(x) == IF x > 6 THEN x + 120 ELSE IF x < -6 THEN x - 120 ELSE x

\* C15: when exit is finalized for a drag with offset (x, y), each axis is
\* pushed on its own and exit is requested: the new x is x + sign(x) * 120 if
\* |x| > 6 and x otherwise, and likewise for y; no component changes sign, and
\* a component of at most 6 px does not move.
C15_PushPerAxis ==
    ccOut # <<>> =>
        LET new == ccOut[1].card.dragOffset IN
        /\ ccOut[1].exit
        /\ new = <<PushOf(ccIn[1]), PushOf(ccIn[2])>>
        /\ \A a \in 1..2 :
              /\ (ccIn[a] > 0) = (new[a] > 0)
              /\ (ccIn[a] < 0) = (new[a] < 0)
              /\ (ccIn[a] <= 6 /\ ccIn[a] >= -6) => new[a] = ccIn[a]
              /\ (ccIn[a] > 6 \/ ccIn[a] < -6) => (new[a] - ccIn[a]) \in {120, -120}

\* C15 witness: the drag with offset (6, -101) was finalized with exit: x is
\* at the 6 px limit, y beyond it.
C15_Witness ==
    /\ ccOut # <<>>
    /\ ccIn = <<6, -101>>
    /\ ccOut[1].card.dragOffset = <<6, -221>>

=============================================================================
